---- MODULE Spec2Model ----
(***************************************************************************)
(* Order composition and pricing of the clothing storefront (src/main2.py). *)
(*                                                                         *)
(* The state is the content of the three tables the order handlers touch:  *)
(* item, order and placed_in.  Every ORM expression of the source is read  *)
(* for the rows it denotes: Item.query.get(name=x) is the Item row with    *)
(* that name, association_table and PlacedIn are the one table placed_in,  *)
(* a Query used where a row is expected is its first row, and              *)
(* db.session.delete applied to the result of a query deletes the rows of  *)
(* that result.  An attribute read on None (a row that was not found) is   *)
(* an unhandled exception: the request ends with status 500.               *)
(*                                                                         *)
(* Item.price is a Float in the source; the model uses small integers, so  *)
(* sums are exact.  order_date and shipping_provider_id are written once   *)
(* at creation and never read by the handlers; they are left out.          *)
(***************************************************************************)
EXTENDS Integers, Sequences, FiniteSets, TLC

\* Bounds of the model.
MaxItems == 2
MaxOrders == 2
MaxPrice == 2
MaxReqs == 2

\* Registered users: User.id and User.type (sign_up, lines 334-347).
Owners == {1}
Customers == {2, 3}
Users == Owners \cup Customers
Names == {"a", "b"}
Prices == 1..MaxPrice
ItemIds == 1..MaxItems
Reqs == 1..MaxReqs

\* The result of a query that finds no row.
None == 0

VARIABLES items, orders, placed_in, resp, req

vars == <<items, orders, placed_in, resp, req>>

----------------------------------------------------------------------------
\* Helpers

Max(S) == CHOOSE x \in S : \A y \in S : y <= x
Min(S) == CHOOSE x \in S : \A y \in S : x <= y

RECURSIVE SumPrices(_, _)
\* total_price += float(item.price), over a set of item ids
SumPrices(it, S) ==
  IF S = {} THEN 0
  ELSE LET i == Min(S) IN it[i].price + SumPrices(it, S \ {i})

user_type(u) == IF u \in Owners THEN "Owner" ELSE "Customer"

\* Item.id is an integer primary key: the store hands out max(id) + 1.
NextItemId(it) == IF DOMAIN it = {} THEN 1 ELSE Max(DOMAIN it) + 1

\* Item.query.get(name=item_name): the Item row with that name, or None.
ItemByName(it, name) ==
  LET S == {i \in DOMAIN it : it[i].name = name}
  IN IF S = {} THEN None ELSE Min(S)

\* Order.query.filter_by(user_id=current_user.id).first(): order_num or None.
OrderOfUser(ord, u) ==
  LET S == {o \in DOMAIN ord : ord[o].user_id = u}
  IN IF S = {} THEN None ELSE Min(S)

\* The placed_in rows of an order: the item ids placed in order_num o.
LineItems(pl, o) == {p[1] : p \in {q \in pl : q[2] = o}}

\* Item.query.join(association_table).join(Order).filter(order_num == o).all()
JoinItems(it, ord, pl, o) ==
  {i \in DOMAIN it : <<i, o>> \in pl /\ o \in DOMAIN ord}

\* DeleteItemRows without the secondary table: the Item row goes and the
\* placed_in rows that refer to it stay.
DeleteItemRows_NoCascade(pl, S) == pl

\* db.session.delete(<Item>): the Item row goes, and with it the rows of the
\* secondary table placed_in that refer to it (relationship(secondary=...)).
DeleteItemRows(pl, S) == {p \in pl : p[1] \notin S}

DeleteItems(it, S) == [i \in DOMAIN it \ S |-> it[i]]

Response(op, u, code, n) == [op |-> op, user |-> u, code |-> code, n |-> n]

IdleReq ==
  [pc |-> "idle", user |-> None, name |-> "", order |-> None,
   todo |-> {}, done |-> {}]

----------------------------------------------------------------------------
\* Pieces of the handlers

\* PlacedIn(item_id=..., order_num=...); db.session.add; db.session.commit
InsertPlacedIn(pl, mi, mo) == pl \cup {<<mi, mo>>}

\* PrimaryKeyRejects with no key on placed_in: every insert is accepted.
PrimaryKeyRejects_Never(pl, mi, mo) == FALSE

\* (item_id, order_num) is the primary key of placed_in: the commit of a row
\* that is already there raises IntegrityError.
PrimaryKeyRejects(pl, mi, mo) == <<mi, mo>> \in pl

\* Order(order_date=now, total_price=0, user_id=current_user.id, ...)
NewOrder(ord, u) == Append(ord, [user_id |-> u, total_price |-> 0])

\* order_to_edit.total_price = total_price
WriteTotal(ord, o, t) == [ord EXCEPT ![o].total_price = t]

\* The rows the pricing loop of the if-branch reads:
\* PlacedIn.query.filter_by(order_num=current_user.id)
PricedRows(pl, u) == LineItems(pl, u)

\* total_price of the if-branch: the prices of the items of those rows
total_price_existing(it, pl, u) == SumPrices(it, PricedRows(pl, u))

\* total_price of the else-branch: the prices of the items joined to new_order
total_price_new(it, ord, pl, o) == SumPrices(it, JoinItems(it, ord, pl, o))

\* "If an Order already exists for that customer and the Item exists..."
OrderAndItemExist(it, ord, u, item_name) ==
  OrderOfUser(ord, u) # None /\ ItemByName(it, item_name) # None

----------------------------------------------------------------------------
Init ==
  /\ items = <<>>
  /\ orders = <<>>
  /\ placed_in = {}
  /\ resp = Response("none", None, "200", 0)
  /\ req = [r \in Reqs |-> IdleReq]

\* admin_only: abort(403) when the current user's type is not Owner
admin_only(u, route) ==
  /\ user_type(u) # "Owner"
  /\ resp' = Response(route, u, "403", 0)
  /\ UNCHANGED <<items, orders, placed_in, req>>

\* customer_only without the abort: the request of another type of user is
\* answered like a customer's.
customer_only_NoAbort(u, route) ==
  /\ user_type(u) # "Customer"
  /\ resp' = Response(route, u, "200", 0)
  /\ UNCHANGED <<items, orders, placed_in, req>>

\* customer_only: abort(403) when the current user's type is not Customer
customer_only(u, route) ==
  /\ user_type(u) # "Customer"
  /\ resp' = Response(route, u, "403", 0)
  /\ UNCHANGED <<items, orders, placed_in, req>>

AdminRoutes == {"owner_add_item", "edit_item", "delete_item"}
CustomerRoutes == {"customer_add_item", "view_order", "delete_order_item"}

\* The handlers below are the POST of a valid form; a GET of owner_add_item,
\* edit_item or customer_add_item renders the form and writes nothing.

\* @admin_only owner_add_item
owner_add_item(u, name, price) ==
  /\ user_type(u) = "Owner"
  /\ UNCHANGED <<orders, placed_in, req>>
  /\ IF \E i \in DOMAIN items : items[i].name = name THEN
       \* "You already have an item with this name"
       /\ resp' = Response("owner_add_item", u, "302", 0)
       /\ UNCHANGED items
     ELSE
       /\ NextItemId(items) <= MaxItems
       /\ items' = [i \in DOMAIN items \cup {NextItemId(items)} |->
                      IF i \in DOMAIN items THEN items[i]
                      ELSE [name |-> name, price |-> price]]
       /\ resp' = Response("owner_add_item", u, "302", 0)

\* @admin_only edit_item
edit_item(u, item_id, name, price) ==
  /\ user_type(u) = "Owner"
  /\ UNCHANGED <<orders, placed_in, req>>
  /\ IF item_id \notin DOMAIN items THEN
       \* item_to_edit.name on None
       /\ resp' = Response("edit_item", u, "500", 0)
       /\ UNCHANGED items
     ELSE
       /\ items' = [items EXCEPT ![item_id] = [name |-> name, price |-> price]]
       /\ resp' = Response("edit_item", u, "302", 0)

\* @admin_only delete_item
delete_item(u, item_id) ==
  /\ user_type(u) = "Owner"
  /\ UNCHANGED <<orders, req>>
  /\ IF item_id \notin DOMAIN items THEN
       \* db.session.delete(None)
       /\ resp' = Response("delete_item", u, "500", 0)
       /\ UNCHANGED <<items, placed_in>>
     ELSE
       /\ items' = DeleteItems(items, {item_id})
       /\ placed_in' = DeleteItemRows(placed_in, {item_id})
       \* n: the placed_in rows that went with the Item
       /\ resp' = Response("delete_item", u, "302",
                           Cardinality(placed_in \ DeleteItemRows(placed_in, {item_id})))

\* @customer_only customer_add_item
customer_add_item(u, item_id, item_name) ==
  /\ user_type(u) = "Customer"
  /\ UNCHANGED <<items, req>>
  /\ IF item_id \notin DOMAIN items THEN
       \* item_to_add.name on None
       /\ resp' = Response("customer_add_item", u, "500", 0)
       /\ UNCHANGED <<orders, placed_in>>
     ELSE IF OrderAndItemExist(items, orders, u, item_name) THEN
       LET matching_order == OrderOfUser(orders, u)
           matching_item == ItemByName(items, item_name)
           inserted == InsertPlacedIn(placed_in, matching_item, matching_order)
       IN IF PrimaryKeyRejects(placed_in, matching_item, matching_order) THEN
            \* the composite primary key rejects the row at commit
            /\ resp' = Response("customer_add_item", u, "500", 0)
            /\ UNCHANGED <<orders, placed_in>>
          ELSE IF ~(PricedRows(inserted, u) \subseteq DOMAIN items) THEN
            \* item.price on None, after the insert was committed
            /\ placed_in' = inserted
            /\ resp' = Response("customer_add_item", u, "500", 0)
            /\ UNCHANGED orders
          ELSE
            /\ placed_in' = inserted
            /\ orders' = WriteTotal(orders, matching_order,
                                    total_price_existing(items, inserted, u))
            /\ resp' = Response("customer_add_item", u, "302", 0)
     ELSE
       /\ Len(orders) < MaxOrders
       /\ LET created == NewOrder(orders, u)
              new_order == Len(created)
          IN orders' = WriteTotal(created, new_order,
                                  total_price_new(items, created, placed_in, new_order))
       /\ resp' = Response("customer_add_item", u, "302", 0)
       /\ UNCHANGED placed_in

\* order_price of view_order: the prices of the items joined to the order
order_price(it, ord, pl, o) == SumPrices(it, JoinItems(it, ord, pl, o))

\* @customer_only view_order; a valid POST of the OrderForm submits the order.
\* The page of a GET shows order_price(items, orders, placed_in, order_to_view).
view_order(u, post) ==
  /\ user_type(u) = "Customer"
  /\ UNCHANGED <<orders, req>>
  /\ IF OrderOfUser(orders, u) = None THEN
       \* order_to_view.order_num on None
       /\ resp' = Response("view_order", u, "500", 0)
       /\ UNCHANGED <<items, placed_in>>
     ELSE IF ~post THEN
       /\ resp' = Response("view_order", u, "200", 0)
       /\ UNCHANGED <<items, placed_in>>
     ELSE
       LET order_to_view == OrderOfUser(orders, u)
           records_to_delete == JoinItems(items, orders, placed_in, order_to_view)
       IN /\ items' = DeleteItems(items, records_to_delete)
          /\ placed_in' = DeleteItemRows(placed_in, records_to_delete)
          /\ resp' = Response("submit_order", u, "200", Cardinality(records_to_delete))

\* @customer_only delete_order_item
delete_order_item(u, item_id) ==
  /\ user_type(u) = "Customer"
  /\ UNCHANGED <<orders, req>>
  /\ IF item_id \notin DOMAIN items \/ OrderOfUser(orders, u) = None THEN
       \* item_to_delete.id or order_to_delete_from.order_num on None
       /\ resp' = Response("delete_order_item", u, "500", 0)
       /\ UNCHANGED <<items, placed_in>>
     ELSE
       LET order_to_delete_from == OrderOfUser(orders, u)
           record_to_delete ==
             JoinItems(items, orders, placed_in, order_to_delete_from) \cap {item_id}
       IN /\ items' = DeleteItems(items, record_to_delete)
          /\ placed_in' = DeleteItemRows(placed_in, record_to_delete)
          /\ resp' = Response("delete_order_item", u, "302", Cardinality(record_to_delete))

----------------------------------------------------------------------------
\* customer_add_item between its commits: each step below runs up to the next
\* db.session.commit() of the handler, and steps of different requests interleave.

SetReq(r, pc, u, name, o) ==
  [req EXCEPT ![r] = [pc |-> pc, user |-> u, name |-> name, order |-> o,
                      todo |-> {}, done |-> {}]]

\* lines 607-624: the reads that choose the branch
add_begin(r, u, item_id, item_name) ==
  /\ req[r].pc = "idle"
  /\ user_type(u) = "Customer"
  /\ UNCHANGED <<items, orders, placed_in>>
  /\ IF item_id \notin DOMAIN items THEN
       /\ resp' = Response("customer_add_item", u, "500", 0)
       /\ UNCHANGED req
     ELSE
       /\ req' = SetReq(r, IF OrderAndItemExist(items, orders, u, item_name)
                           THEN "insert" ELSE "create", u, item_name, None)
       /\ UNCHANGED resp

\* lines 626-638: insert the placed_in row and commit
add_insert(r) ==
  /\ req[r].pc = "insert"
  /\ UNCHANGED <<items, orders>>
  /\ LET u == req[r].user
         matching_order == OrderOfUser(orders, u)
         matching_item == ItemByName(items, req[r].name)
     IN IF matching_item = None
           \/ PrimaryKeyRejects(placed_in, matching_item, matching_order) THEN
          \* matching_item.id on None, or the primary key rejects the row
          /\ resp' = Response("customer_add_item", u, "500", 0)
          /\ req' = [req EXCEPT ![r] = IdleReq]
          /\ UNCHANGED placed_in
        ELSE
          /\ placed_in' = InsertPlacedIn(placed_in, matching_item, matching_order)
          /\ req' = SetReq(r, "price", u, req[r].name, matching_order)
          /\ UNCHANGED resp

\* lines 644-665: recompute total_price, write it and commit
add_price(r) ==
  /\ req[r].pc = "price"
  /\ UNCHANGED <<items, placed_in>>
  /\ req' = [req EXCEPT ![r] = IdleReq]
  /\ LET u == req[r].user
     IN IF ~(PricedRows(placed_in, u) \subseteq DOMAIN items) THEN
          /\ resp' = Response("customer_add_item", u, "500", 0)
          /\ UNCHANGED orders
        ELSE
          /\ orders' = WriteTotal(orders, req[r].order,
                                  total_price_existing(items, placed_in, u))
          /\ resp' = Response("customer_add_item", u, "302", 0)

\* lines 667-676: create the order and commit
add_create(r) ==
  /\ req[r].pc = "create"
  /\ Len(orders) < MaxOrders
  /\ orders' = NewOrder(orders, req[r].user)
  /\ req' = SetReq(r, "price_new", req[r].user, req[r].name, Len(orders) + 1)
  /\ UNCHANGED <<items, placed_in, resp>>

\* lines 677-710: recompute total_price of the new order, write it and commit
add_price_new(r) ==
  /\ req[r].pc = "price_new"
  /\ orders' = WriteTotal(orders, req[r].order,
                          total_price_new(items, orders, placed_in, req[r].order))
  /\ resp' = Response("customer_add_item", req[r].user, "302", 0)
  /\ req' = [req EXCEPT ![r] = IdleReq]
  /\ UNCHANGED <<items, placed_in>>

\* The owner stocks the catalog, customers add items and look at their order
\* (GET of view_order) while the add requests are in flight.
NextConc ==
  \/ \E u \in Users, n \in Names, p \in Prices : owner_add_item(u, n, p)
  \/ \E r \in Reqs, u \in Users, i \in ItemIds, n \in Names : add_begin(r, u, i, n)
  \/ \E r \in Reqs : add_insert(r)
  \/ \E r \in Reqs : add_price(r)
  \/ \E r \in Reqs : add_create(r)
  \/ \E r \in Reqs : add_price_new(r)
  \/ \E u \in Users : view_order(u, FALSE)

----------------------------------------------------------------------------
\* The submit of view_order between its commits: the loop of lines 746-748
\* commits after every record it deletes.

SetSubmit(r, u, o, todo, done) ==
  [req EXCEPT ![r] = [pc |-> "submit", user |-> u, name |-> "", order |-> o,
                      todo |-> todo, done |-> done]]

\* lines 720-745: find the order and query records_to_delete (one submit is
\* in flight at a time: the failure of a commit needs no second request)
submit_begin(r, u) ==
  /\ \A q \in Reqs : req[q].pc = "idle"
  /\ user_type(u) = "Customer"
  /\ UNCHANGED <<items, orders, placed_in>>
  /\ IF OrderOfUser(orders, u) = None THEN
       /\ resp' = Response("view_order", u, "500", 0)
       /\ UNCHANGED req
     ELSE
       /\ req' = SetSubmit(r, u, OrderOfUser(orders, u),
                           JoinItems(items, orders, placed_in, OrderOfUser(orders, u)),
                           {})
       /\ UNCHANGED resp

\* lines 746-748: delete one record and commit
submit_delete(r) ==
  /\ req[r].pc = "submit"
  /\ UNCHANGED orders
  /\ \E record \in req[r].todo :
       IF record \notin DOMAIN items THEN
         \* the row went in the meantime: the DELETE matches no row and raises
         /\ resp' = Response("submit_order", req[r].user, "500",
                             Cardinality(req[r].done))
         /\ req' = [req EXCEPT ![r] = IdleReq]
         /\ UNCHANGED <<items, placed_in>>
       ELSE
         /\ items' = DeleteItems(items, {record})
         /\ placed_in' = DeleteItemRows(placed_in, {record})
         /\ req' = SetSubmit(r, req[r].user, req[r].order,
                             req[r].todo \ {record}, req[r].done \cup {record})
         /\ UNCHANGED resp

\* line 748 raising (the store refuses the commit, for example a locked
\* database): the delete of this iteration is lost, the commits of the earlier
\* iterations stay, and the request ends with the unhandled exception.
submit_fail(r) ==
  /\ req[r].pc = "submit"
  /\ req[r].todo # {}
  /\ resp' = Response("submit_order", req[r].user, "500", Cardinality(req[r].done))
  /\ req' = [req EXCEPT ![r] = IdleReq]
  /\ UNCHANGED <<items, orders, placed_in>>

\* lines 749-753: the loop is over, render order-submitted.html
submit_end(r) ==
  /\ req[r].pc = "submit"
  /\ req[r].todo = {}
  /\ resp' = Response("submit_order", req[r].user, "200", Cardinality(req[r].done))
  /\ req' = [req EXCEPT ![r] = IdleReq]
  /\ UNCHANGED <<items, orders, placed_in>>

\* The owner stocks the catalog and customers fill their orders; submits run
\* commit by commit and a commit of the loop may fail.
NextSubmit ==
  \/ \E u \in Users, n \in Names, p \in Prices : owner_add_item(u, n, p)
  \/ \E u \in Users, i \in ItemIds, n \in Names : customer_add_item(u, i, n)
  \/ \E r \in Reqs, u \in Users : submit_begin(r, u)
  \/ \E r \in Reqs : submit_delete(r)
  \/ \E r \in Reqs : submit_fail(r)
  \/ \E r \in Reqs : submit_end(r)

\* Requests served one at a time, each handler run to its end
Next ==
  \/ \E u \in Users, r \in AdminRoutes : admin_only(u, r)
  \/ \E u \in Users, r \in CustomerRoutes : customer_only(u, r)
  \/ \E u \in Users, n \in Names, p \in Prices : owner_add_item(u, n, p)
  \/ \E u \in Users, i \in ItemIds, n \in Names, p \in Prices : edit_item(u, i, n, p)
  \/ \E u \in Users, i \in ItemIds : delete_item(u, i)
  \/ \E u \in Users, i \in ItemIds, n \in Names : customer_add_item(u, i, n)
  \/ \E u \in Users, post \in BOOLEAN : view_order(u, post)
  \/ \E u \in Users, i \in ItemIds : delete_order_item(u, i)

Spec == Init /\ [][Next]_vars

\* Concurrent customer_add_item requests, interleaved at their commits
SpecConc == Init /\ [][NextConc]_vars

\* Submits interleaved at their commits, with commits of the loop that fail
SpecSubmit == Init /\ [][NextSubmit]_vars

----------------------------------------------------------------------------
\* Properties

OrdersOf(ord, u) == {o \in DOMAIN ord : ord[o].user_id = u}

\* Order.total_price equals the sum of Item.price over the order's line items
TotalConsistent(it, ord, pl, o) ==
  /\ LineItems(pl, o) \subseteq DOMAIN it
  /\ ord[o].total_price = SumPrices(it, LineItems(pl, o))

\* C1 (P1/I3): after every add or remove that completes, total_price of the
\* customer's order equals the sum of the prices of its current line items.
C1_TotalConsistency ==
  [][(resp'.op \in {"customer_add_item", "delete_order_item"} /\ resp'.code = "302")
       => \A o \in OrdersOf(orders', resp'.user) :
            TotalConsistent(items', orders', placed_in', o)]_vars

\* C2 (P2/I2): in every reachable state every customer has at most one open
\* order (the source never closes an Order row, so every row is open).
C2_SingleOpenOrder ==
  \A u \in Customers : Cardinality(OrdersOf(orders, u)) <= 1

\* C3 (P5): when add requests of one customer interleave, a request whose item
\* resolves creates an Order row only while the customer still has none, so the
\* racing requests create exactly one row.
C3_CreationExactlyOnce ==
  [][\A r \in Reqs :
       (req[r].pc = "create" /\ req'[r].pc = "price_new"
          /\ ItemByName(items, req[r].name) # None)
       => OrderOfUser(orders, req[r].user) = None]_vars

\* C4: the first add of a customer without an order leaves an order whose line
\* items are exactly the added item and whose total_price is that item's price.
C4_FirstAddPlacesItem ==
  [][\A u \in Customers, i \in ItemIds, n \in Names :
       (customer_add_item(u, i, n) /\ OrderOfUser(orders, u) = None
          /\ ItemByName(items, n) = i)
       => LET o == OrderOfUser(orders', u)
          IN /\ o # None
             /\ LineItems(placed_in', o) = {i}
             /\ orders'[o].total_price = items[i].price]_vars

\* C5 (P3/I4): after submit_order completes, no placed_in row refers to the
\* submitted order.
C5_CascadeOnSubmit ==
  resp.op = "submit_order"
    => LineItems(placed_in, OrderOfUser(orders, resp.user)) = {}

\* A submit that deleted the records of a non-empty order has just completed.
C5_Witness == resp.op = "submit_order" /\ resp.n >= 1

\* C6: after submit_order the customer has no open order (the submitted order
\* is closed and the next add starts a new one).
C6_SubmitIsTerminal ==
  resp.op = "submit_order" => OrderOfUser(orders, resp.user) = None

\* C7 (P4): removing an item that is not in the customer's order, or removing
\* with no open order, fails and leaves orders and line items unchanged.
C7_AbsentRemovalRejected ==
  [][\A u \in Customers, i \in ItemIds :
       (delete_order_item(u, i)
          /\ (OrderOfUser(orders, u) = None
                \/ i \notin LineItems(placed_in, OrderOfUser(orders, u))))
       => /\ resp'.code \notin {"200", "302"}
          /\ UNCHANGED <<orders, placed_in>>]_vars

\* C8: an add whose item does not resolve to a catalog Item fails and creates
\* no Order row, inserts no line item and writes no total_price.
C8_UnknownItemRejected ==
  [][\A u \in Customers, i \in ItemIds, n \in Names :
       (customer_add_item(u, i, n)
          /\ (i \notin DOMAIN items \/ ItemByName(items, n) = None))
       => /\ resp'.code \notin {"200", "302"}
          /\ UNCHANGED <<orders, placed_in>>]_vars

\* C9: the commit that changes the line items of an order also brings its
\* total_price in line with them (no committed state in between is visible).
C9_AtomicMutationAndPricing ==
  [][\A r \in Reqs :
       (req[r].pc = "insert" /\ req'[r].pc = "price")
       => TotalConsistent(items', orders', placed_in', req'[r].order)]_vars

\* C10: add, remove, view and submit leave the catalog's Item records and
\* prices unchanged.
C10_CatalogNotMutated ==
  [][resp'.op \in {"customer_add_item", "delete_order_item", "view_order",
                   "submit_order"}
       => items' = items]_vars

\* C11 (I1): in every reachable state every placed_in row refers to an Item of
\* the catalog and to an Order of the ledger, also after an owner deleted a
\* placed item and after a submit.
C11_ReferentialIntegrity ==
  \A p \in placed_in : p[1] \in DOMAIN items /\ p[2] \in DOMAIN orders

\* An owner has just deleted an item that was placed in some order, while
\* other line items remain.
C11_Witness ==
  resp.op = "delete_item" /\ resp.code = "302" /\ resp.n >= 1 /\ placed_in # {}

\* C12: an add of an item that is already a line item of the customer's order
\* fails, leaves the (item, order) row in place once and leaves total_price
\* (and everything else stored) unchanged.
C12_DuplicateAddRejected ==
  [][\A u \in Customers, i \in ItemIds, n \in Names :
       (customer_add_item(u, i, n)
          /\ i \in DOMAIN items
          /\ OrderOfUser(orders, u) # None
          /\ ItemByName(items, n) \in LineItems(placed_in, OrderOfUser(orders, u)))
       => /\ resp'.code = "500"
          /\ <<ItemByName(items, n), OrderOfUser(orders, u)>> \in placed_in'
          /\ UNCHANGED <<items, orders, placed_in>>]_vars

\* An add has just failed although every item id exists: the row it tried to
\* insert was already there.
C12_Witness ==
  /\ resp.op = "customer_add_item"
  /\ resp.code = "500"
  /\ DOMAIN items = ItemIds
  /\ placed_in # {}

\* C13: view_order by a customer without an open order (no order yet, or the
\* order was just submitted) fails and creates or changes no order, line item
\* or total_price.
C13_ViewWithoutOpenOrder ==
  [][\A u \in Customers :
       (view_order(u, FALSE)
          /\ (OrderOfUser(orders, u) = None
                \/ (resp.op = "submit_order" /\ resp.user = u)))
       => /\ resp'.code \notin {"200", "302"}
          /\ UNCHANGED <<orders, placed_in>>]_vars

\* C14: a submit that fails while it deletes the order's line items is rolled
\* back as a whole: of the line items the order had when the submit began,
\* either all are still there or none is.
C14_SubmitAllOrNothing ==
  [][\A r \in Reqs :
       (req[r].pc = "submit" /\ req'[r].pc = "idle" /\ resp'.code = "500")
       => LET before == req[r].todo \cup req[r].done
              after == LineItems(placed_in', req[r].order) \cap before
          IN after = {} \/ after = before]_vars

\* C15: the total_price an add persists is a function of the order's current
\* line items and the current prices alone, their sum, and 0 for an order
\* without line items: whatever happened before, an order an add has written or
\* whose line items it has changed carries exactly that sum.
C15_PricingIsPure ==
  [][\A u \in Customers, i \in ItemIds, n \in Names :
       (customer_add_item(u, i, n) /\ resp'.code = "302")
       => \A o \in DOMAIN orders' :
            (o \notin DOMAIN orders
               \/ LineItems(placed_in', o) # LineItems(placed_in, o))
            => orders'[o].total_price = SumPrices(items', LineItems(placed_in', o))]_vars

\* C16: delete_order_item of an item that is in the customer's order (whose
\* total_price was right before) removes exactly that line item, keeps the
\* order and its other line items, and leaves total_price equal to the sum
\* over the remaining line items.
C16_RemoveExactlyThatItem ==
  [][\A u \in Customers, i \in ItemIds :
       LET o == OrderOfUser(orders, u)
       IN (delete_order_item(u, i)
             /\ o # None
             /\ i \in LineItems(placed_in, o)
             /\ TotalConsistent(items, orders, placed_in, o))
          => /\ OrderOfUser(orders', u) = o
             /\ LineItems(placed_in', o) = LineItems(placed_in, o) \ {i}
             /\ TotalConsistent(items', orders', placed_in', o)]_vars

\* C17: after an owner edits the price of an item placed in an order whose
\* total_price was right before, total_price of that order equals the sum of
\* the current prices of its line items.
C17_TotalSurvivesPriceEdit ==
  [][\A u \in Owners, i \in ItemIds, n \in Names, p \in Prices :
       \A o \in DOMAIN orders :
         (edit_item(u, i, n, p)
            /\ i \in LineItems(placed_in, o)
            /\ TotalConsistent(items, orders, placed_in, o))
         => TotalConsistent(items', orders', placed_in', o)]_vars

CustomerOps ==
  {"customer_add_item", "view_order", "submit_order", "delete_order_item"}

\* C18: a request of customer A leaves the Order row, the line items and the
\* total_price of every other customer's order unchanged.
C18_CustomerIsolation ==
  [][(resp'.op \in CustomerOps /\ resp'.user \in Customers)
       => \A o \in DOMAIN orders :
            orders[o].user_id # resp'.user
            => /\ orders'[o] = orders[o]
               /\ LineItems(placed_in', o) = LineItems(placed_in, o)]_vars

\* C19: a request to a customer route by a user who is not a Customer, and a
\* request to an owner route by a user who is not an Owner, is answered 403
\* and changes no order, line item, total_price or catalog item.
C19_RoleGating ==
  [][/\ (resp'.op \in CustomerRoutes \cup {"submit_order"}
           /\ user_type(resp'.user) # "Customer")
          => resp'.code = "403" /\ UNCHANGED <<items, orders, placed_in>>
     /\ (resp'.op \in AdminRoutes /\ user_type(resp'.user) # "Owner")
          => resp'.code = "403" /\ UNCHANGED <<items, orders, placed_in>>]_vars

\* The owner has just been refused on a customer route while an order with a
\* line item exists.
C19_Witness ==
  /\ resp.op \in CustomerRoutes
  /\ resp.user \in Owners
  /\ resp.code = "403"
  /\ placed_in # {}

\* C20: whenever view_order succeeds, the order price it shows equals the
\* total_price stored on the customer's Order row.
C20_DisplayedEqualsStored ==
  [][\A u \in Customers :
       (view_order(u, FALSE) /\ resp'.code = "200")
       => order_price(items, orders, placed_in, OrderOfUser(orders, u))
            = orders[OrderOfUser(orders, u)].total_price]_vars

====
